---------------------------- MODULE Spec2Model ----------------------------
(***************************************************************************)
(* Model of mtkclient/Library/utils.py: the ELF segment table with its     *)
(* three address lookups (class ELF) and the UART-safe offset search with  *)
(* its instruction synthesis and assembler boundary (class Patchtools).    *)
(*                                                                         *)
(* Two specifications share the variables:                                 *)
(*   SpecELF    one ELF object is constructed from an image and queried;   *)
(*   SpecPatch  a Patchtools object serves generate_offset,                *)
(*              generate_offset_asm and assembler requests, one at a time. *)
(***************************************************************************)
EXTENDS Integers, Sequences, FiniteSets, TLC

VARIABLES
    \* ---- class ELF ----
    elf_state,      \* "none" | "constructed": whether ELF.__init__ has returned an object
    data,           \* self.data: the image handed to ELF.__init__
    elfclass,       \* self.elfclass = data[4]
    pentry,         \* self.pentry: the parsed ProgramEntry list
    memorylayout,   \* self.memorylayout: the MemorySegment list
    elf_stdout,     \* what ELF.parse printed
    lk_op,          \* the lookup just served: "none" | "getfileoffset" | "getvirtaddr" | "getbaseaddr"
    lk_arg,         \* its argument
    lk_ret,         \* its return value: None or Some(v)
    \* ---- class Patchtools ----
    proc,           \* "running" | "exited": the interpreter process
    bDebug,         \* self.bDebug
    cstyle,         \* self.cstyle
    call,           \* the request being served: "none" | a method name of Patchtools
    pc,             \* position inside the request
    offset,         \* parameter offset of generate_offset / generate_offset_asm
    reg,            \* parameter reg of generate_offset_asm
    div,            \* local div of generate_offset
    iters,          \* loop iterations entered in the current pass of generate_offset
    ret_line,       \* which return statement of generate_offset was taken: "none" | "asc" | "desc" | "fallback"
    ret,            \* value returned by generate_offset (also the local div of generate_offset_asm)
    strasm,         \* text returned by generate_offset_asm, as a sequence of lines of tokens
    asm_out,        \* text returned by assembler
    patch_stdout,   \* what assembler printed
    buf,            \* the buffer handed to has_bad_uart_chars / uart_valid_sc
    buf_ret,        \* the boolean they return
    buf_print,      \* what uart_valid_sc printed
    raised          \* exception propagated to the caller of the request: "none" | "struct.error" | "KsError"

elfvars   == <<elf_state, data, elfclass, pentry, memorylayout, elf_stdout, lk_op, lk_arg, lk_ret>>
bufvars   == <<buf, buf_ret, buf_print>>
patchvars == <<proc, bDebug, cstyle, call, pc, offset, reg, div, iters, ret_line, ret, strasm, asm_out, patch_stdout, raised, bufvars>>
vars      == <<elfvars, patchvars>>

(***************************************************************************)
(* Optional values: Python's None and a returned integer.                  *)
(***************************************************************************)
None    == <<>>
Some(v) == <<v>>

-----------------------------------------------------------------------------
(***************************************************************************)
(* class ELF                                                               *)
(***************************************************************************)

\* Bound of the model: the largest number of program-header entries of an image.
MaxSegs == 2

\* Values the address and length fields of a program-header entry are drawn from.
AddrValues == {0, 1}
LenValues  == {0, 1}
\* Queries handed to the lookups: every address a segment can cover, and one on each side.
\* and the addresses of the documented scenario (0x50, 0x1010, 0x1050).
Queries    == (-1 .. 3) \cup {80, 4112, 4176}

\* A program-header entry, by field name.
Entries ==
    [p_type : {1}, from_file : AddrValues, virt_addr : AddrValues, phy_addr : {0},
     seg_file_len : LenValues, seg_mem_len : LenValues, p_flags : {5}, p_align : {4}]

\* The raw fields of one entry in the order the image's class lays them out.
RawEntry(cls, e) ==
    IF cls = 2
    THEN <<e.p_type, e.p_flags, e.from_file, e.virt_addr, e.phy_addr,
           e.seg_file_len, e.seg_mem_len, e.p_align>>
    ELSE <<e.p_type, e.from_file, e.virt_addr, e.phy_addr,
           e.seg_file_len, e.seg_mem_len, e.p_flags, e.p_align>>

SeqsUpTo(S, n) == UNION { [1..k -> S] : k \in 0..n }

\* The images: a class byte (1 = 32 bit, 2 = 64 bit, 3 = unrecognised) and the
\* program-header table.
\* Besides, the image of the documented scenario in both classes: one entry with
\* vaddr = 0x1000, fileOffset = 0x40, fileSize = 0x100, memSize = 0x200.
ScenarioEntry ==
    [p_type |-> 1, from_file |-> 64, virt_addr |-> 4096, phy_addr |-> 4096,
     seg_file_len |-> 256, seg_mem_len |-> 512, p_flags |-> 5, p_align |-> 4]

ScenarioImage(cls) == [class |-> cls, phdr |-> << RawEntry(cls, ScenarioEntry) >>]

Images ==
    { [class |-> cls, phdr |-> [i \in DOMAIN es |-> RawEntry(cls, es[i])]] :
        cls \in {1, 2, 3}, es \in SeqsUpTo(Entries, MaxSegs) }
    \cup { ScenarioImage(1), ScenarioImage(2) }

\* Faulty variant of parse_programentry: the 32-bit field order for both classes.
parse_programentry_32(cls, dat) ==
    [p_type |-> dat[1], from_file |-> dat[2], virt_addr |-> dat[3], phy_addr |-> dat[4],
     seg_file_len |-> dat[5], seg_mem_len |-> dat[6], p_flags |-> dat[7], p_align |-> dat[8]]

\* ELF.parse_programentry: the class decides the field order.
parse_programentry(cls, dat) ==
    IF cls = 1
    THEN [p_type |-> dat[1], from_file |-> dat[2], virt_addr |-> dat[3], phy_addr |-> dat[4],
          seg_file_len |-> dat[5], seg_mem_len |-> dat[6], p_flags |-> dat[7], p_align |-> dat[8]]
    ELSE [p_type |-> dat[1], p_flags |-> dat[2], from_file |-> dat[3], virt_addr |-> dat[4],
          phy_addr |-> dat[5], seg_file_len |-> dat[6], seg_mem_len |-> dat[7], p_align |-> dat[8]]

\* ELF.parse: the entry list and what is printed.  An unrecognised class byte
\* prints a message and returns ['', '']: an empty entry list, no exception.
parse(indata) ==
    IF indata.class \in {1, 2}
    THEN [pentry |-> [i \in DOMAIN indata.phdr |-> parse_programentry(indata.class, indata.phdr[i])],
          stdout |-> <<>>]
    ELSE [pentry |-> <<>>, stdout |-> <<"Error on parsing">>]

\* The loop body of ELF.__init__: one MemorySegment per entry.
MemorySegment(entry) ==
    [phy_addr        |-> entry.phy_addr,
     virt_start_addr |-> entry.virt_addr,
     virt_end_addr   |-> entry.virt_addr + entry.seg_mem_len,
     file_start_addr |-> entry.from_file,
     file_end_addr   |-> entry.from_file + entry.seg_file_len]

\* ELF.getfileoffset: scan from index i on, return at the first match.
RECURSIVE getfileoffset_from(_, _, _)
getfileoffset_from(ml, o, i) ==
    IF i > Len(ml) THEN None
    ELSE IF ml[i].virt_end_addr >= o /\ o >= ml[i].virt_start_addr
         THEN Some(o - ml[i].virt_start_addr + ml[i].file_start_addr)
         ELSE getfileoffset_from(ml, o, i + 1)

getfileoffset(ml, o) == getfileoffset_from(ml, o, 1)

\* ELF.getvirtaddr
RECURSIVE getvirtaddr_from(_, _, _)
getvirtaddr_from(ml, f, i) ==
    IF i > Len(ml) THEN None
    ELSE IF ml[i].file_end_addr >= f /\ f >= ml[i].file_start_addr
         THEN Some(ml[i].virt_start_addr + f - ml[i].file_start_addr)
         ELSE getvirtaddr_from(ml, f, i + 1)

getvirtaddr(ml, f) == getvirtaddr_from(ml, f, 1)

\* ELF.getbaseaddr
RECURSIVE getbaseaddr_from(_, _, _)
getbaseaddr_from(ml, o, i) ==
    IF i > Len(ml) THEN None
    ELSE IF ml[i].virt_end_addr >= o /\ o >= ml[i].virt_start_addr
         THEN Some(ml[i].virt_start_addr)
         ELSE getbaseaddr_from(ml, o, i + 1)

\* Faulty variant of getbaseaddr: the scan keeps the last match instead of returning at the first.
getbaseaddr_last(ml, o) ==
    LET m == { i \in DOMAIN ml : ml[i].virt_end_addr >= o /\ o >= ml[i].virt_start_addr }
    IN  IF m = {} THEN None
        ELSE Some(ml[CHOOSE i \in m : \A j \in m : j <= i].virt_start_addr)

getbaseaddr(ml, o) == getbaseaddr_from(ml, o, 1)

\* ELF.__init__(indata, filename)
ELFInit(indata) ==
    /\ elf_state = "none"
    /\ LET p == parse(indata) IN
        /\ data' = indata
        /\ elfclass' = indata.class
        /\ pentry' = p.pentry
        /\ elf_stdout' = p.stdout
        /\ memorylayout' = [i \in DOMAIN p.pentry |-> MemorySegment(p.pentry[i])]
    /\ elf_state' = "constructed"
    /\ UNCHANGED <<lk_op, lk_arg, lk_ret, patchvars>>

\* The application builds its ELF object, once, from some image.
ConstructELF ==
    /\ elf_state = "none"
    /\ \E indata \in Images : ELFInit(indata)

CallGetfileoffset(q) ==
    /\ elf_state = "constructed" /\ lk_op = "none"
    /\ lk_op' = "getfileoffset" /\ lk_arg' = q
    /\ lk_ret' = getfileoffset(memorylayout, q)
    /\ UNCHANGED <<elf_state, data, elfclass, pentry, memorylayout, elf_stdout, patchvars>>

CallGetvirtaddr(q) ==
    /\ elf_state = "constructed" /\ lk_op = "none"
    /\ lk_op' = "getvirtaddr" /\ lk_arg' = q
    /\ lk_ret' = getvirtaddr(memorylayout, q)
    /\ UNCHANGED <<elf_state, data, elfclass, pentry, memorylayout, elf_stdout, patchvars>>

CallGetbaseaddr(q) ==
    /\ elf_state = "constructed" /\ lk_op = "none"
    /\ lk_op' = "getbaseaddr" /\ lk_arg' = q
    /\ lk_ret' = getbaseaddr(memorylayout, q)
    /\ UNCHANGED <<elf_state, data, elfclass, pentry, memorylayout, elf_stdout, patchvars>>

\* The caller takes the result; the object is unchanged and can be queried again.
LookupDone ==
    /\ lk_op # "none"
    /\ lk_op' = "none" /\ lk_arg' = 0 /\ lk_ret' = None
    /\ UNCHANGED <<elf_state, data, elfclass, pentry, memorylayout, elf_stdout, patchvars>>

-----------------------------------------------------------------------------
(***************************************************************************)
(* class Patchtools                                                        *)
(***************************************************************************)

\* Python integers are unbounded and a target address needs 32 bits, more than
\* a number of the model holds.  An address is therefore kept in base 2^16:
\* W(hi, lo) stands for hi * 2^16 + lo with 0 <= lo < 2^16 and hi any integer
\* (negative for a negative number), and Plus adds a small integer exactly.
W(h, l) == [hi |-> h, lo |-> l]
Plus(v, d) == W(v.hi + ((v.lo + d) \div 65536), (v.lo + d) % 65536)

\* Target addresses handed to generate_offset / generate_offset_asm (32-bit values):
\*   0x41414141   clean as it is
\*   0x4141FF00   the first clean sum is far up, a clean difference is near
\*   0x4141FFFC   the sum carries into byte 2 after one step
\*   0x41000300   byte 2 is 0x00 for every sum, a borrow cleans it
\*   0x41000600   only the last difference (d = 0x604) is clean
\*   0x4100FAFD   only the last sum (d = 0x604) is clean
\*   0x41001000   byte 2 is 0x00 for every sum and every difference
\*   0x41000700   the same, a borrow is just out of reach
\*   0x80000000, 0x0A0A0A0A, 0x00000605   never clean
\*   0x12345678, 0x01010101, 0xFFFFF9FA
\*   0xFFFFFFF0, 0xFFFFFFFF   the sums leave 32 bits
\*   0x00000010, 0x00000000   the differences go below 0
Targets ==
    { W(16705, 16705), W(16705, 65280), W(16705, 65532), W(16640, 768),
      W(16640, 1536), W(16640, 64253), W(16640, 4096), W(16640, 1792),
      W(32768, 0), W(2570, 2570), W(0, 1541),
      W(4660, 22136), W(257, 257), W(65535, 63994),
      W(65535, 65520), W(65535, 65535), W(0, 16), W(0, 0) }

\* Register names handed to generate_offset_asm.
Regs == {"X24", "W0"}

\* Byte sequences the external encoder (keystone) can answer with.
Encodings == { <<>>, <<24, 19, 4, 209>>, <<24, 3, 0, 145>> }

\* struct.pack("<I", v): the 4 bytes of v, least significant first.  Defined for
\* 0 <= v <= 0xFFFFFFFF; struct.pack raises struct.error outside (CanPack_I).
CanPack_I(v) == 0 <= v.hi /\ v.hi <= 65535
pack_I(v) == << v.lo % 256, v.lo \div 256, v.hi % 256, (v.hi \div 256) % 256 >>

\* struct.pack("<H", v): 2 bytes, defined for 0 <= v <= 0xFFFF.
CanPack_H(v) == 0 <= v /\ v <= 65535
pack_H(v) == << v % 256, (v \div 256) % 256 >>

\* The list badchars of has_bad_uart_chars: b'\x00', b'\n', b'\r', b'\x08', b'\x7f', b'\x20', b'\x09'.
badchars == <<0, 10, 13, 8, 127, 32, 9>>

\* Faulty variant of has_bad_uart_chars: b'\x00' is missing from the list.
has_bad_uart_chars_no_nul(dat) ==
    \E idx \in DOMAIN dat : \E k \in DOMAIN badchars : badchars[k] # 0 /\ badchars[k] = dat[idx]

\* Patchtools.has_bad_uart_chars: True at the first byte found in badchars.
has_bad_uart_chars(dat) ==
    \E idx \in DOMAIN dat : \E k \in DOMAIN badchars : badchars[k] = dat[idx]

\* The loop guards "div < 0x606" of the ascending and of the descending pass.
\* Faulty variant of AscGuard: the first loop still runs at d = 0x608.
AscGuard_60A(d) == d < 1546
AscGuard(d)  == d < 1542
\* Faulty variant of DescGuard: the second loop runs to 0x806.
DescGuard_806(d) == d < 2054
DescGuard(d) == d < 1542

\* Faulty variant of NextDiv: the step is 8.
NextDiv_8(d) == d + 8
\* "div += 4"
NextDiv(d) == d + 4

\* The two checks of one iteration; the 2-byte check is made only after the
\* 4-byte one passed.
BothClean(v, d) == ~has_bad_uart_chars(pack_I(v)) /\ ~has_bad_uart_chars(pack_H(d))

\* Python's hex(): "0x" and the digits, most significant first, as tokens.
HexDigit(n) == <<"0","1","2","3","4","5","6","7","8","9","a","b","c","d","e","f">>[n + 1]

RECURSIVE HexDigits(_)
HexDigits(n) == IF n < 16 THEN <<HexDigit(n)>> ELSE Append(HexDigits(n \div 16), HexDigit(n % 16))

hex(n) == IF n < 0 THEN <<"-0x">> \o HexDigits(-n) ELSE <<"0x">> \o HexDigits(n)

\* hex() of a non-negative address: the digits of hi, then the four digits of lo.
Hex04(n) == <<HexDigit(n \div 4096), HexDigit((n \div 256) % 16), HexDigit((n \div 16) % 16), HexDigit(n % 16)>>
hexW(v) == IF v.hi = 0 THEN hex(v.lo) ELSE hex(v.hi) \o Hex04(v.lo)

\* "%02x" % i, for a byte
Hex02(i) == <<HexDigit(i \div 16), HexDigit(i % 16)>>

\* A request of the caller starts generate_offset (line 635): div = 0, first pass.
StartSearch(c, t, r) ==
    /\ proc = "running" /\ pc = "idle"
    /\ call' = c /\ offset' = t /\ reg' = r
    /\ div' = 0 /\ iters' = 0 /\ pc' = "asc"
    /\ UNCHANGED <<elfvars, bufvars, proc, bDebug, cstyle, ret_line, ret, strasm, asm_out, patch_stdout, raised>>

CallGenerateOffset(t) == StartSearch("generate_offset", t, "")

\* generate_offset_asm calls generate_offset first (line 662).
CallGenerateOffsetAsm(t, r) == StartSearch("generate_offset_asm", t, r)

\* generate_offset returns d by the return statement named line: to the caller of
\* the request, or into generate_offset_asm.
ReturnDiv(d, line) ==
    /\ ret' = d /\ ret_line' = line
    /\ pc' = IF call = "generate_offset_asm" THEN "emit" ELSE "done"
    /\ UNCHANGED <<elfvars, bufvars, proc, bDebug, cstyle, call, offset, reg, div, strasm, asm_out, patch_stdout, raised>>

\* struct.pack raises: generate_offset (and generate_offset_asm above it) is left
\* by the exception.
RaiseStructError ==
    /\ raised' = "struct.error" /\ pc' = "raised"
    /\ UNCHANGED <<elfvars, bufvars, proc, bDebug, cstyle, call, offset, reg, div, ret_line, ret, strasm, asm_out, patch_stdout>>

StepDiv ==
    /\ div' = NextDiv(div)
    /\ UNCHANGED <<elfvars, bufvars, proc, bDebug, cstyle, call, pc, offset, reg, ret_line, ret, strasm, asm_out, patch_stdout, raised>>

\* ---- first loop, lines 637-645 ----
AscRaise ==
    /\ pc = "asc" /\ AscGuard(div)
    /\ ~CanPack_I(Plus(offset, div)) \/ ~CanPack_H(div)
    /\ iters' = iters + 1
    /\ RaiseStructError

AscReturn ==
    /\ pc = "asc" /\ AscGuard(div)
    /\ CanPack_I(Plus(offset, div)) /\ CanPack_H(div)
    /\ BothClean(Plus(offset, div), div)
    /\ iters' = iters + 1
    /\ ReturnDiv(div, "asc")

AscStep ==
    /\ pc = "asc" /\ AscGuard(div)
    /\ CanPack_I(Plus(offset, div)) /\ CanPack_H(div)
    /\ ~BothClean(Plus(offset, div), div)
    /\ iters' = iters + 1
    /\ StepDiv

\* line 648: the first loop ended without a return
AscExhausted ==
    /\ pc = "asc" /\ ~AscGuard(div)
    /\ div' = 0 /\ iters' = 0 /\ pc' = "desc"
    /\ UNCHANGED <<elfvars, bufvars, proc, bDebug, cstyle, call, offset, reg, ret_line, ret, strasm, asm_out, patch_stdout, raised>>

\* ---- second loop, lines 649-657 ----
DescRaise ==
    /\ pc = "desc" /\ DescGuard(div)
    /\ ~CanPack_I(Plus(offset, -div)) \/ ~CanPack_H(div)
    /\ iters' = iters + 1
    /\ RaiseStructError

DescReturn ==
    /\ pc = "desc" /\ DescGuard(div)
    /\ CanPack_I(Plus(offset, -div)) /\ CanPack_H(div)
    /\ BothClean(Plus(offset, -div), div)
    /\ iters' = iters + 1
    /\ ReturnDiv(-div, "desc")

DescStep ==
    /\ pc = "desc" /\ DescGuard(div)
    /\ CanPack_I(Plus(offset, -div)) /\ CanPack_H(div)
    /\ ~BothClean(Plus(offset, -div), div)
    /\ iters' = iters + 1
    /\ StepDiv

\* line 658: return 0
DescExhausted ==
    /\ pc = "desc" /\ ~DescGuard(div)
    /\ UNCHANGED iters
    /\ ReturnDiv(0, "fallback")

\* The locals of generate_offset_asm (lines 663-664):
\* abase = ((offset + div) & 0xFFFF0000) >> 16 keeps bits 16..31, a = (offset + div) & 0xFFFF.
\* Faulty variant of a_of: only the low 12 bits are kept.
a_of_FFF(t, d) == Plus(t, d).lo % 4096
abase_of(t, d) == Plus(t, d).hi % 65536
a_of(t, d)     == Plus(t, d).lo

\* The third instruction (lines 669-672): "if div > 0: sub ... else: add ...".
ThirdInstruction(r, d) ==
    IF d > 0
    THEN << <<"sub", r, r>> \o hex(d) >>
    ELSE << <<"add", r, r>> \o hex(-d) >>

\* The text built by generate_offset_asm (lines 665-672), one token sequence per line.
BuildAsm(t, r, d) ==
    << <<"#">> \o hexW(t),
       <<"mov", r>> \o hex(a_of(t, d)),
       (<<"movk", r>> \o hex(abase_of(t, d))) \o <<"LSL#16">> >>
    \o ThirdInstruction(r, d)

\* generate_offset_asm after generate_offset has returned (lines 663-673).
EmitAsm ==
    /\ pc = "emit"
    /\ strasm' = BuildAsm(offset, reg, ret)
    /\ pc' = "done"
    /\ UNCHANGED <<elfvars, bufvars, proc, bDebug, cstyle, call, offset, reg, div, iters, ret_line, ret,
                   asm_out, patch_stdout, raised>>

\* The text assembler builds from the encoding (lines 719-733).
RECURSIVE FormatEncoding(_, _)
FormatEncoding(encoding, c) ==
    IF encoding = <<>> THEN <<>>
    ELSE ((IF c THEN <<"\\x">> ELSE <<>>) \o Hex02(Head(encoding)))
         \o FormatEncoding(Tail(encoding), c)

\* assembler(code), ks.asm(code) answering with an encoding.
AssemblerEncoded(encoding) ==
    /\ proc = "running" /\ pc = "idle"
    /\ call' = "assembler"
    /\ asm_out' = FormatEncoding(encoding, cstyle)
    /\ pc' = "done"
    /\ UNCHANGED <<elfvars, bufvars, proc, bDebug, cstyle, offset, reg, div, iters, ret_line, ret, strasm,
                   patch_stdout, raised>>

\* assembler(code), ks.asm(code) raising KsError.  With bDebug the handler prints
\* the error, its statement count and the code fragment, then calls exit(0)
\* (lines 698-715); without bDebug nothing catches the exception (line 717).
AssemblerFailed ==
    /\ proc = "running" /\ pc = "idle"
    /\ call' = "assembler"
    /\ IF bDebug
       THEN /\ patch_stdout' = <<"e", "e.stat_count", "code[e.stat_count:e.stat_count + 10]">>
            /\ proc' = "exited"
            /\ pc' = "exited"
            /\ UNCHANGED raised
       ELSE /\ raised' = "KsError"
            /\ pc' = "raised"
            /\ UNCHANGED <<proc, patch_stdout>>
    /\ UNCHANGED <<elfvars, bufvars, bDebug, cstyle, offset, reg, div, iters, ret_line, ret, strasm, asm_out>>

\* Bound of the model: the longest buffer handed to the byte filter.
MaxBufLen == 2

\* Byte values the buffers are drawn from: the seven filtered values, their
\* neighbours, and the ends of the byte range.
ByteValues == {0, 1, 8, 9, 10, 11, 13, 31, 32, 33, 65, 126, 127, 128, 255}

Buffers == SeqsUpTo(ByteValues, MaxBufLen)

\* The list badchars of uart_valid_sc (line 677).
\* Faulty variant of badchars_sc: b'\x7f' is missing from the list.
badchars_sc_no_del == <<0, 10, 13, 8, 32, 9>>
badchars_sc == <<0, 10, 13, 8, 127, 32, 9>>

\* Patchtools.uart_valid_sc from index idx on (idx counts from 1, Python's from
\* 0): at the first byte found in badchars it prints the byte, its offset and
\* its opcode number (offset / 4) and returns False; True after the last byte.
RECURSIVE uart_valid_sc_from(_, _)
uart_valid_sc_from(sc, idx) ==
    IF idx > Len(sc) THEN [valid |-> TRUE, printed |-> <<>>]
    ELSE IF \E k \in DOMAIN badchars_sc : badchars_sc[k] = sc[idx]
         THEN [valid |-> FALSE,
               printed |-> (<<"bad char 0x">> \o Hex02(sc[idx]))
                           \o <<"offset", idx - 1, "opcode", (idx - 1) \div 4>>]
         ELSE uart_valid_sc_from(sc, idx + 1)

uart_valid_sc(sc) == uart_valid_sc_from(sc, 1)

\* A call of the static method has_bad_uart_chars(data).
CallHasBadUartChars(b) ==
    /\ proc = "running" /\ pc = "idle"
    /\ call' = "has_bad_uart_chars" /\ buf' = b
    /\ buf_ret' = has_bad_uart_chars(b)
    /\ buf_print' = <<>>
    /\ pc' = "done"
    /\ UNCHANGED <<elfvars, proc, bDebug, cstyle, offset, reg, div, iters, ret_line, ret, strasm,
                   asm_out, patch_stdout, raised>>

\* A call of the static method uart_valid_sc(sc).
CallUartValidSc(b) ==
    /\ proc = "running" /\ pc = "idle"
    /\ call' = "uart_valid_sc" /\ buf' = b
    /\ buf_ret' = uart_valid_sc(b).valid
    /\ buf_print' = uart_valid_sc(b).printed
    /\ pc' = "done"
    /\ UNCHANGED <<elfvars, proc, bDebug, cstyle, offset, reg, div, iters, ret_line, ret, strasm,
                   asm_out, patch_stdout, raised>>

\* The caller has the request's result or exception; the object is ready for the
\* next request.
RequestDone ==
    /\ proc = "running" /\ pc \in {"done", "raised"}
    /\ call' = "none" /\ pc' = "idle"
    /\ offset' = W(0, 0) /\ reg' = "" /\ div' = 0 /\ iters' = 0
    /\ ret_line' = "none" /\ ret' = 0
    /\ strasm' = <<>> /\ asm_out' = <<>> /\ raised' = "none"
    /\ buf' = <<>> /\ buf_ret' = FALSE /\ buf_print' = <<>>
    /\ UNCHANGED <<elfvars, proc, bDebug, cstyle, patch_stdout>>

InitELFVars ==
    /\ elf_state = "none"
    /\ data = [class |-> 0, phdr |-> <<>>]
    /\ elfclass = 0
    /\ pentry = <<>>
    /\ memorylayout = <<>>
    /\ elf_stdout = <<>>
    /\ lk_op = "none" /\ lk_arg = 0 /\ lk_ret = None

\* Patchtools(bdebug): bDebug is the constructor's argument (line 623); cstyle is
\* a class attribute (line 619) the application may have set.
InitPatchVars(bdebug, c) ==
    /\ proc = "running"
    /\ bDebug = bdebug
    /\ cstyle = c
    /\ call = "none"
    /\ pc = "idle"
    /\ offset = W(0, 0)
    /\ reg = ""
    /\ div = 0
    /\ iters = 0
    /\ ret_line = "none"
    /\ ret = 0
    /\ strasm = <<>>
    /\ asm_out = <<>>
    /\ patch_stdout = <<>>
    /\ raised = "none"
    /\ buf = <<>> /\ buf_ret = FALSE /\ buf_print = <<>>

InitELF == InitELFVars /\ InitPatchVars(FALSE, FALSE)

NextELF ==
    \/ ConstructELF
    \/ \E q \in Queries : CallGetfileoffset(q)
    \/ \E q \in Queries : CallGetvirtaddr(q)
    \/ \E q \in Queries : CallGetbaseaddr(q)
    \/ LookupDone

SpecELF == InitELF /\ [][NextELF]_vars

InitPatch == InitELFVars /\ \E b \in BOOLEAN, c \in BOOLEAN : InitPatchVars(b, c)

NextPatch ==
    \/ \E t \in Targets : CallGenerateOffset(t)
    \/ \E t \in Targets, r \in Regs : CallGenerateOffsetAsm(t, r)
    \/ AscRaise
    \/ AscReturn
    \/ AscStep
    \/ AscExhausted
    \/ DescRaise
    \/ DescReturn
    \/ DescStep
    \/ DescExhausted
    \/ EmitAsm
    \/ \E encoding \in Encodings : AssemblerEncoded(encoding)
    \/ AssemblerFailed
    \/ \E b \in Buffers : CallHasBadUartChars(b)
    \/ \E b \in Buffers : CallUartValidSc(b)
    \/ RequestDone

SpecPatch == InitPatch /\ [][NextPatch]_vars

-----------------------------------------------------------------------------
(***************************************************************************)
(* Properties of class ELF, checked under SpecELF                          *)
(***************************************************************************)

Min(S) == CHOOSE x \in S : \A y \in S : x <= y

\* The table positions whose closed virtual / file interval holds an address.
VirtMatches(ml, v) == { i \in DOMAIN ml : ml[i].virt_start_addr <= v /\ v <= ml[i].virt_end_addr }
FileMatches(ml, f) == { i \in DOMAIN ml : ml[i].file_start_addr <= f /\ f <= ml[i].file_end_addr }

\* C1: for every segment S of memorylayout and every address o with
\* S.virt_start_addr <= o <= S.virt_end_addr, getfileoffset(o) returns a value
\* and getvirtaddr of that value returns o.
C1_RoundTrip ==
    elf_state = "constructed" =>
        \A i \in DOMAIN memorylayout :
            \A o \in memorylayout[i].virt_start_addr .. memorylayout[i].virt_end_addr :
                LET f == getfileoffset(memorylayout, o) IN
                    /\ f # None
                    /\ getvirtaddr(memorylayout, f[1]) = Some(o)

\* C2: each lookup returns the mapping of the FIRST segment in table order
\* whose closed interval holds the query (getfileoffset and getbaseaddr by the
\* virtual interval, getvirtaddr by the file interval), and None exactly when
\* no segment holds it; this for every query and every segment list, the
\* empty one included.
C2_FirstMatchLookups ==
    LET ml == memorylayout
        q  == lk_arg
        vm == VirtMatches(ml, q)
        fm == FileMatches(ml, q)
    IN  /\ lk_op = "getvirtaddr" =>
            lk_ret = IF fm = {} THEN None
                     ELSE Some(ml[Min(fm)].virt_start_addr + (q - ml[Min(fm)].file_start_addr))
        /\ lk_op = "getfileoffset" =>
            lk_ret = IF vm = {} THEN None
                     ELSE Some(ml[Min(vm)].file_start_addr + (q - ml[Min(vm)].virt_start_addr))
        /\ lk_op = "getbaseaddr" =>
            lk_ret = IF vm = {} THEN None
                     ELSE Some(ml[Min(vm)].virt_start_addr)

\* C2 witness: a base-address lookup answered from the first of two overlapping
\* segments that start at different addresses.
C2_Witness ==
    /\ lk_op = "getbaseaddr"
    /\ \E i, j \in VirtMatches(memorylayout, lk_arg) :
        /\ i < j
        /\ memorylayout[i].virt_start_addr # memorylayout[j].virt_start_addr
        /\ lk_ret = Some(memorylayout[i].virt_start_addr)

\* C6: an image whose class byte is neither 1 nor 2 never yields an ELF object
\* (with or without segments) that the lookups can be called on.
C6_InvalidClassYieldsNoObject ==
    ~(elf_state = "constructed" /\ data.class \notin {1, 2})

-----------------------------------------------------------------------------
(***************************************************************************)
(* Properties of class Patchtools, checked under SpecPatch                 *)
(***************************************************************************)

\* The bound of the search, 0x606.
boundsLimit == 1542

\* The forbidden bytes 0x00, 0x0A, 0x0D, 0x08, 0x7F, 0x20, 0x09.
Forbidden == {0, 10, 13, 8, 127, 32, 9}
Clean(bytes) == \A k \in DOMAIN bytes : bytes[k] \notin Forbidden

\* The little-endian encodings: 4 bytes of an address that fits 32 bits,
\* 2 bytes of a number below 2^16.
Fits32(v) == v.hi \in 0..65535
LE4(v) == << v.lo % 256, (v.lo \div 256) % 256, v.hi % 256, (v.hi \div 256) % 256 >>
LE2(n) == << n % 256, (n \div 256) % 256 >>

Abs(n) == IF n < 0 THEN -n ELSE n

\* The divisors of one pass: 0, 4, 8, ... below boundsLimit.
Divisors == { d \in 0..(boundsLimit - 1) : d % 4 = 0 }

\* d (of either sign) is a filter-clean candidate for target t.
IsCandidate(t, d) ==
    /\ Fits32(Plus(t, d))
    /\ Clean(LE4(Plus(t, d)))
    /\ Clean(LE2(Abs(d)))

Candidates(t) == { d \in { e : e \in Divisors } \cup { -e : e \in Divisors } : IsCandidate(t, d) }

\* generate_offset has returned (to its caller or into generate_offset_asm).
Returned == ret_line # "none"

\* C3: whenever generate_offset returns, the divisor is a multiple of 4 with
\* -0x606 < d < 0x606.
C3_DivisorWithinBounds ==
    Returned => ret % 4 = 0 /\ -boundsLimit < ret /\ ret < boundsLimit

\* C3 witness: the search returned the divisor of largest magnitude, -0x604.
C3_Witness == call = "generate_offset" /\ pc = "done" /\ ret_line = "desc" /\ ret = -1540

\* The result C4 describes: smallest clean d >= 0, else minus the smallest clean
\* d of the descending pass, else 0.
Reference(t) ==
    LET up   == { d \in Divisors : IsCandidate(t, d) }
        down == { d \in Divisors : IsCandidate(t, -d) }
    IN  IF up # {} THEN Min(up)
        ELSE IF down # {} THEN -Min(down)
        ELSE 0

\* C4: every call generate_offset(t) ends by returning Reference(t).
C4_EqualsReference ==
    (call = "generate_offset" /\ pc \in {"done", "raised"}) =>
        pc = "done" /\ ret = Reference(offset)

\* C5 as stated: generate_offset never returns d while a candidate of smaller
\* magnitude exists, and returns the positive one of two candidates of equal
\* magnitude.
C5_SmallestMagnitude ==
    Returned =>
        \A e \in Candidates(offset) :
            Abs(e) >= Abs(ret) /\ (Abs(e) = Abs(ret) => ret >= e)

\* C5 amended: the sign comes first.  A returned d > 0 is the smallest
\* non-negative candidate; a returned d < 0 is the candidate of smallest
\* magnitude and no non-negative candidate exists; 0 is returned only when
\* there is no candidate at all.
C5_PositivePassFirst ==
    Returned =>
        /\ ret > 0 => ret \in Candidates(offset)
                      /\ \A e \in Candidates(offset) : e >= 0 => e >= ret
        /\ ret < 0 => ret \in Candidates(offset)
                      /\ \A e \in Candidates(offset) : e < 0 /\ e <= ret
        /\ ret = 0 => Candidates(offset) = {}

\* C5 witness: 0x204 was returned for 0x4141FF00 although -0x104 is a candidate.
C5_Witness ==
    /\ call = "generate_offset" /\ pc = "done"
    /\ ret = 516 /\ -260 \in Candidates(offset)

\* The instructions of a text: its lines without the comment line.
Instructions(text) == SelectSeq(text, LAMBDA line : line[1] # "#")

\* C7: generate_offset_asm emits mov (low 16 bits of t + d), movk (high 16 bits,
\* LSL#16), then sub d when d > 0, add |d| when d < 0, and nothing when d = 0.
C7_ThirdInstructionBySign ==
    (call = "generate_offset_asm" /\ pc = "done") =>
        Instructions(strasm) =
            << <<"mov", reg>> \o hex(Plus(offset, ret).lo),
               (<<"movk", reg>> \o hex(Plus(offset, ret).hi % 65536)) \o <<"LSL#16">> >>
            \o (IF ret > 0 THEN << <<"sub", reg, reg>> \o hex(ret) >>
                ELSE IF ret < 0 THEN << <<"add", reg, reg>> \o hex(-ret) >>
                ELSE <<>>)

\* C8 as stated: a result of 0 is ambiguous.  Among the targets a waiting
\* Patchtools object can be asked for there is one for which d = 0 itself passes
\* both encoding checks of the first iteration, so that 0 is returned as a
\* success (besides the targets, shown by C8_Witness, for which 0 is returned
\* after both passes were exhausted).
C8_ZeroCanBeSuccess ==
    (proc = "running" /\ pc = "idle") =>
        \E t \in Targets : CanPack_I(t) /\ BothClean(t, 0)

\* C8 amended: 0 is returned only by the fallback after both passes were
\* exhausted; d = 0 never passes, so a pass that succeeds returns d # 0.
C8_ZeroOnlyByExhaustion ==
    /\ (Returned /\ ret = 0) => ret_line = "fallback"
    /\ ret_line \in {"asc", "desc"} => ret # 0
    /\ (pc \in {"asc", "desc"} /\ div = 0) => has_bad_uart_chars(pack_H(div))

\* C8 witness: 0 returned by the fallback for a target whose own encoding is clean
\* in no byte position the search can reach.
C8_Witness == call = "generate_offset" /\ pc = "done" /\ ret = 0 /\ ret_line = "fallback"

\* C9: every text generate_offset_asm returns is built on a divisor the search
\* verified: not on the fallback 0, and the 4 bytes of t + d are clean.
C9_NoEmissionOnExhaustion ==
    (call = "generate_offset_asm" /\ pc = "done") =>
        ret_line # "fallback" /\ Clean(LE4(Plus(offset, ret)))

\* C10: when the encoder fails inside assembler, with bDebug set or not, the
\* failure reaches the caller of the request and the process keeps running.
C10_EncodeFailureIsLocal ==
    (call = "assembler" /\ pc \in {"raised", "exited"}) =>
        raised = "KsError" /\ proc = "running"

\* C11: the byte filter is exact for every buffer, the empty one included:
\* has_bad_uart_chars(buf) is True iff a byte of buf is one of 0x00, 0x0A, 0x0D,
\* 0x08, 0x7F, 0x20, 0x09; uart_valid_sc(buf) is True iff none is; so the one
\* is the negation of the other.
C11_ByteFilterExact ==
    /\ (call = "has_bad_uart_chars" /\ pc = "done") =>
            /\ buf_ret = (\E k \in DOMAIN buf : buf[k] \in Forbidden)
            /\ buf_ret = ~uart_valid_sc(buf).valid
    /\ (call = "uart_valid_sc" /\ pc = "done") =>
            /\ buf_ret = (\A k \in DOMAIN buf : buf[k] \notin Forbidden)
            /\ buf_ret = ~has_bad_uart_chars(buf)

\* C11 witness: uart_valid_sc rejected a buffer whose first byte is allowed and
\* whose second byte is filtered.
C11_Witness ==
    /\ call = "uart_valid_sc" /\ pc = "done" /\ buf_ret = FALSE
    /\ Len(buf) = 2 /\ buf[1] \notin Forbidden /\ buf[2] \in Forbidden

\* The fields of the i-th program-header entry of an image, read at the place
\* the image's class gives them (32 bit: type, offset, vaddr, paddr, filesz,
\* memsz, flags, align; 64 bit: type, flags, offset, vaddr, paddr, filesz,
\* memsz, align).
PhdrField(img, i, name) ==
    LET raw == img.phdr[i]
        k   == IF img.class = 1
               THEN CASE name = "offset" -> 2 [] name = "vaddr" -> 3
                      [] name = "filesz" -> 5 [] name = "memsz" -> 6
               ELSE CASE name = "offset" -> 3 [] name = "vaddr" -> 4
                      [] name = "filesz" -> 6 [] name = "memsz" -> 7
    IN  raw[k]

\* C12: after ELF.__init__ on a 32- or 64-bit image, memorylayout holds one
\* segment per program-header entry, in table order, with virt_start = vaddr,
\* virt_end = vaddr + memSize, file_start = fileOffset, file_end = fileOffset +
\* fileSize, hence virt_end >= virt_start and file_end >= file_start; and on the
\* 64-bit image with the one entry {vaddr=0x1000, fileOffset=0x40,
\* fileSize=0x100, memSize=0x200}: getvirtaddr(0x50) = 0x1010,
\* getfileoffset(0x1010) = 0x50, getbaseaddr(0x1050) = 0x1000.
C12_SegmentsFromProgramHeaders ==
    (elf_state = "constructed" /\ data.class \in {1, 2}) =>
        /\ Len(memorylayout) = Len(data.phdr)
        /\ \A i \in DOMAIN memorylayout :
            LET ms == memorylayout[i] IN
                /\ ms.virt_start_addr = PhdrField(data, i, "vaddr")
                /\ ms.virt_end_addr   = PhdrField(data, i, "vaddr") + PhdrField(data, i, "memsz")
                /\ ms.file_start_addr = PhdrField(data, i, "offset")
                /\ ms.file_end_addr   = PhdrField(data, i, "offset") + PhdrField(data, i, "filesz")
                /\ ms.virt_end_addr >= ms.virt_start_addr
                /\ ms.file_end_addr >= ms.file_start_addr
        /\ data = ScenarioImage(2) =>
            /\ (lk_op = "getvirtaddr"   /\ lk_arg = 80)   => lk_ret = Some(4112)
            /\ (lk_op = "getfileoffset" /\ lk_arg = 4112) => lk_ret = Some(80)
            /\ (lk_op = "getbaseaddr"   /\ lk_arg = 4176) => lk_ret = Some(4096)

\* C12 witness: the scenario's file offset was asked of the 64-bit scenario image.
C12_Witness ==
    /\ elf_state = "constructed" /\ data = ScenarioImage(2)
    /\ lk_op = "getfileoffset" /\ lk_arg = 4112 /\ lk_ret = Some(80)

\* One of the steps of the search loops.
SearchStep ==
    \/ AscRaise \/ AscReturn \/ AscStep \/ AscExhausted
    \/ DescRaise \/ DescReturn \/ DescStep \/ DescExhausted

\* C13: generate_offset always terminates.  In each of the two passes d is 4
\* times the number of iterations made (it grows by 4 with every iteration that
\* does not return), the loop is entered only while d < 0x606, so a pass makes
\* at most 386 iterations (d = 0, 4, ..., 0x604), and while the search is inside
\* a pass it always has a next step; this for every target.
C13_BoundedPasses ==
    /\ iters <= 386
    /\ pc \in {"asc", "desc"} =>
        /\ div = 4 * iters
        /\ div <= boundsLimit + 2
        /\ ENABLED SearchStep

\* C13 witness: a pass that made all 386 iterations and is at its end.
C13_Witness == pc = "desc" /\ iters = 386 /\ div = 1544 /\ ~DescGuard(div)

\* The number a sequence of hexadecimal digits denotes.
DigitValue(c) == CHOOSE n \in 0 .. 15 : HexDigit(n) = c

RECURSIVE HexValue(_)
HexValue(digits) ==
    IF digits = <<>> THEN 0
    ELSE 16 * HexValue(SubSeq(digits, 1, Len(digits) - 1)) + DigitValue(digits[Len(digits)])

\* The immediate operand of an emitted line: the digits after the "0x" token.
RECURSIVE Immediate(_)
Immediate(line) ==
    IF Head(line) = "0x"
    THEN HexValue(SelectSeq(Tail(line), LAMBDA tok : tok # "LSL#16"))
    ELSE Immediate(Tail(line))

\* The register after the emitted mov / movk LSL#16 pair, and after the third
\* instruction has been applied to it.
RegAfterMovk(text) == W(Immediate(Instructions(text)[2]), Immediate(Instructions(text)[1]))
RegAfterThird(text) ==
    LET third == Instructions(text)[3]
    IN  IF third[1] = "sub"
        THEN Plus(RegAfterMovk(text), 0 - Immediate(third))
        ELSE Plus(RegAfterMovk(text), Immediate(third))

\* C14: the sequence emitted by generate_offset_asm reconstructs the target.
\* For every target for which generate_offset returns d, the emitted mov / movk
\* pair holds exactly t + d (16 low bits and 16 high bits, nothing lost), the
\* third instruction subtracts d when d > 0 and adds -d when d <= 0, and the
\* register then holds t.
C14_SequenceReconstructsTarget ==
    (call = "generate_offset_asm" /\ pc = "done") =>
        /\ Len(Instructions(strasm)) = 3
        /\ Instructions(strasm)[1][1] = "mov"
        /\ Instructions(strasm)[2][1] = "movk"
        /\ RegAfterMovk(strasm) = Plus(offset, ret)
        /\ Instructions(strasm)[3][1] = (IF ret > 0 THEN "sub" ELSE "add")
        /\ Immediate(Instructions(strasm)[3]) = Abs(ret)
        /\ RegAfterThird(strasm) = offset

\* C14 witness: an emitted sequence whose divisor is negative and whose t + d
\* lies below a 16-bit boundary that t lies above, so the add carries into
\* the high half.
C14_Witness ==
    /\ call = "generate_offset_asm" /\ pc = "done"
    /\ ret < 0
    /\ Plus(offset, ret).hi # offset.hi
    /\ RegAfterThird(strasm) = offset

\* C15: generate_offset is total on 32-bit targets.  For every target t with
\* 0 <= t < 2^32, every value the call encodes as an unsigned 4-byte integer
\* (t + d in the ascending pass, t - d in the descending pass, for each d it
\* reaches) lies in [0, 2^32), and the call never ends by an encoding error.
C15_TotalOn32BitTargets ==
    (call \in {"generate_offset", "generate_offset_asm"} /\ Fits32(offset)) =>
        /\ pc = "asc"  => (AscGuard(div)  => Fits32(Plus(offset, div)))
        /\ pc = "desc" => (DescGuard(div) => Fits32(Plus(offset, 0 - div)))
        /\ raised # "struct.error"

=============================================================================
